---- MODULE Spec2Model ----
(***************************************************************************)
(* Pet Store API (app/main.py, app/models.py, app/schemas.py).             *)
(*                                                                         *)
(* The state is the three process-wide lists pets_db, orders_db, users_db. *)
(* Every request handler is one action: the handlers are coroutines with   *)
(* no await between their scan and their mutation.  The last request and   *)
(* its response are kept in the state so that properties of responses can  *)
(* be stated.                                                              *)
(*                                                                         *)
(* Conventions                                                             *)
(*   - A Python value that may be None is a sequence of length <= 1:       *)
(*     None is << >> and a value v is <<v>>.                               *)
(*   - A JSON request body is a function from the keys that were sent to   *)
(*     their values (pydantic's "fields set").                             *)
(*   - Prices are in cents (299.99 is 29999).                              *)
(*   - datetime.utcnow() reads clock, the number of requests served so     *)
(*     far; the seed rows are built at import time, clock 0.               *)
(*   - horizon is the number of requests the clients send in a run.        *)
(*   - everHeld, gone and created record the history of each collection:   *)
(*     the ids ever stored, the ids deleted since the last create, and the *)
(*     ids that creates assigned, in order.                                *)
(*   - inflight is the list of requests the server has accepted, each with *)
(*     the lists as they were when it was accepted and a mark once its     *)
(*     handler has run.  It stays empty when requests arrive one at a      *)
(*     time.                                                               *)
(***************************************************************************)
EXTENDS Integers, Sequences, FiniteSets, TLC

VARIABLES pets_db, orders_db, users_db, clock, request, response,
          everHeld, gone, created, horizon, inflight

vars == <<pets_db, orders_db, users_db, clock, request, response,
          everHeld, gone, created, horizon, inflight>>

(***************************************************************************)
(* Bounds                                                                  *)
(***************************************************************************)
MaxClock == 3

\* Requests per run when only creates and deletes are sent
MaxIdClock == 4

\* Requests that concurrent clients have in flight in a run
MaxTasks == 3

(***************************************************************************)
(* Optional values                                                         *)
(***************************************************************************)
None == << >>

Some(v) == <<v>>

IsNone(x) == x = None

Get(x) == x[1]

(***************************************************************************)
(* models.py: enumerations and field constraints                           *)
(***************************************************************************)
PetStatus == {"available", "pending", "sold"}

OrderStatus == {"placed", "approved", "delivered", "cancelled"}

PetCategory == {"dog", "cat", "bird", "fish", "reptile", "other"}

NameMinLen == 1

NameMaxLen == 100

DescriptionMaxLen == 1000

UsernameMinLen == 3

UsernameMaxLen == 50

PersonNameMaxLen == 50

PasswordMinLen == 6

LimitMin == 1

LimitMax == 100

LimitDefault == 10

(***************************************************************************)
(* Request bodies: Has(b, f) is "f in fields set"; Field gives the value   *)
(* sent, or the declared default when the key was not sent.                *)
(***************************************************************************)
Has(body, f) == f \in DOMAIN body

Field(body, f, default) == IF Has(body, f) THEN body[f] ELSE default

Min(S) == CHOOSE x \in S : \A y \in S : x <= y

Max(S) == CHOOSE x \in S : \A y \in S : x >= y

(***************************************************************************)
(* models.py: request-body validation (what FastAPI does before the        *)
(* handler runs; a failure is a 422 and the handler is never entered).     *)
(***************************************************************************)
IsStr(x, lo, hi) == ~IsNone(x) /\ Len(Get(x)) >= lo /\ Len(Get(x)) <= hi

\* PetCreate: name, category and price are required; the rest have defaults.
ValidPetCreate(body) ==
    /\ Has(body, "name") /\ IsStr(body["name"], NameMinLen, NameMaxLen)
    /\ Has(body, "category") /\ ~IsNone(body["category"])
       /\ Get(body["category"]) \in PetCategory
    /\ Has(body, "status") =>
         (~IsNone(body["status"]) /\ Get(body["status"]) \in PetStatus)
    /\ Has(body, "tags") => ~IsNone(body["tags"])
    /\ Has(body, "price") /\ ~IsNone(body["price"]) /\ Get(body["price"]) > 0
    /\ Has(body, "description") =>
         (IsNone(body["description"])
            \/ Len(Get(body["description"])) <= DescriptionMaxLen)
    /\ Has(body, "photo_urls") => ~IsNone(body["photo_urls"])

\* PetUpdate: every field is Optional with default None, so an explicit null
\* passes validation; a value that is sent must satisfy the constraint.
ValidPetUpdate(body) ==
    /\ Has(body, "name") =>
         (IsNone(body["name"]) \/ IsStr(body["name"], NameMinLen, NameMaxLen))
    /\ Has(body, "category") =>
         (IsNone(body["category"]) \/ Get(body["category"]) \in PetCategory)
    /\ Has(body, "status") =>
         (IsNone(body["status"]) \/ Get(body["status"]) \in PetStatus)
    /\ Has(body, "price") =>
         (IsNone(body["price"]) \/ Get(body["price"]) > 0)
    /\ Has(body, "description") =>
         (IsNone(body["description"])
            \/ Len(Get(body["description"])) <= DescriptionMaxLen)

\* OrderCreate: pet_id, user_id and quantity are required, quantity > 0.
ValidOrderCreate(body) ==
    /\ Has(body, "pet_id") /\ Has(body, "user_id")
    /\ Has(body, "quantity") /\ body["quantity"] > 0
    /\ Has(body, "status") => body["status"] \in OrderStatus

\* UserCreate: length constraints on username, names and password.
ValidUserCreate(body) ==
    /\ Has(body, "username")
       /\ Len(body["username"]) >= UsernameMinLen
       /\ Len(body["username"]) <= UsernameMaxLen
    /\ Has(body, "first_name")
       /\ Len(body["first_name"]) >= 1
       /\ Len(body["first_name"]) <= PersonNameMaxLen
    /\ Has(body, "last_name")
       /\ Len(body["last_name"]) >= 1
       /\ Len(body["last_name"]) <= PersonNameMaxLen
    /\ Has(body, "email")
    /\ Has(body, "password") /\ Len(body["password"]) >= PasswordMinLen

\* Query(10, ge=1, le=100) and Query(0, ge=0)
ValidPage(limit, offset) == limit >= LimitMin /\ limit <= LimitMax /\ offset >= 0

\* schemas.py PetResponse(**pet.dict()): the required fields reject None;
\* description and updated_at are Optional.
ValidPetResponse(pet) ==
    /\ ~IsNone(pet.name)
    /\ ~IsNone(pet.category)
    /\ ~IsNone(pet.status)
    /\ ~IsNone(pet.tags)
    /\ ~IsNone(pet.price)
    /\ ~IsNone(pet.photo_urls)

(***************************************************************************)
(* main.py: the seed rows of initialize_sample_data                        *)
(***************************************************************************)
SamplePets ==
    << [id |-> 1, name |-> Some("Buddy"), category |-> Some("dog"),
        status |-> Some("available"),
        tags |-> Some(<<"friendly", "house-trained">>), price |-> Some(29999),
        description |-> Some("A friendly golden retriever"),
        photo_urls |-> Some(<<"https://example.com/buddy1.jpg">>),
        created_at |-> 0, updated_at |-> None],
       [id |-> 2, name |-> Some("Whiskers"), category |-> Some("cat"),
        status |-> Some("available"),
        tags |-> Some(<<"playful", "indoor">>), price |-> Some(19999),
        description |-> Some("A playful orange tabby cat"),
        photo_urls |-> Some(<<"https://example.com/whiskers1.jpg">>),
        created_at |-> 0, updated_at |-> None],
       [id |-> 3, name |-> Some("Tweety"), category |-> Some("bird"),
        status |-> Some("sold"),
        tags |-> Some(<<"colorful", "singing">>), price |-> Some(8999),
        description |-> Some("A beautiful canary"),
        photo_urls |-> Some(<<"https://example.com/tweety1.jpg">>),
        created_at |-> 0, updated_at |-> None] >>

SampleUsers ==
    << [id |-> 1, username |-> "johndoe", first_name |-> "John",
        last_name |-> "Doe", email |-> "john@example.com",
        phone |-> Some("+1234567890"), password |-> "password123",
        user_status |-> 1, created_at |-> 0, updated_at |-> None],
       [id |-> 2, username |-> "janedoe", first_name |-> "Jane",
        last_name |-> "Doe", email |-> "jane@example.com",
        phone |-> Some("+1234567891"), password |-> "password123",
        user_status |-> 1, created_at |-> 0, updated_at |-> None] >>

(***************************************************************************)
(* main.py: the pieces the handlers are built from                         *)
(***************************************************************************)
Ids(db) == {db[i].id : i \in 1..Len(db)}

\* max([p.id for p in db], default=0) + 1
NewIdByLength(db) == Len(db) + 1

NewId(db) == IF db = << >> THEN 1 ELSE Max(Ids(db)) + 1

\* for i, x in enumerate(db): if x.id == id: ...   (0 when the scan ends)
Find(db, id) ==
    IF \E i \in 1..Len(db) : db[i].id = id
    THEN Min({i \in 1..Len(db) : db[i].id = id}) ELSE 0

\* any(x.id == id for x in db)
ExistsByPosition(db, id) == id \in 1..Len(db)

Exists(db, id) == \E i \in 1..Len(db) : db[i].id = id

\* del db[i]
DeleteAtOffByOne(db, i) == SubSeq(db, 1, i) \o SubSeq(db, i + 2, Len(db))

DeleteAt(db, i) == SubSeq(db, 1, i - 1) \o SubSeq(db, i + 1, Len(db))

\* db[start:end] for 0 <= start <= end
PySlice(db, start, end) ==
    SubSeq(db, start + 1, IF end < Len(db) THEN end ELSE Len(db))

\* pet.copy(update=pet_update.dict(exclude_unset=True)); updated_at = utcnow()
UpdateField(pet, body, f) == IF Has(body, f) THEN body[f] ELSE pet[f]

ApplyUpdateFreshPet(pet, body, t) ==
    [id |-> pet.id,
     name |-> UpdateField(pet, body, "name"),
     category |-> UpdateField(pet, body, "category"),
     status |-> UpdateField(pet, body, "status"),
     tags |-> UpdateField(pet, body, "tags"),
     price |-> UpdateField(pet, body, "price"),
     description |-> UpdateField(pet, body, "description"),
     photo_urls |-> UpdateField(pet, body, "photo_urls"),
     created_at |-> t,
     updated_at |-> Some(t)]

ApplyUpdate(pet, body, t) ==
    [id |-> pet.id,
     name |-> UpdateField(pet, body, "name"),
     category |-> UpdateField(pet, body, "category"),
     status |-> UpdateField(pet, body, "status"),
     tags |-> UpdateField(pet, body, "tags"),
     price |-> UpdateField(pet, body, "price"),
     description |-> UpdateField(pet, body, "description"),
     photo_urls |-> UpdateField(pet, body, "photo_urls"),
     created_at |-> pet.created_at,
     updated_at |-> Some(t)]

\* Pet(id=new_id, name=pet.name, ..., photo_urls=pet.photo_urls)
NewPet(id, body, t) ==
    [id |-> id,
     name |-> body["name"],
     category |-> body["category"],
     status |-> Field(body, "status", Some("available")),
     tags |-> Field(body, "tags", Some(<< >>)),
     price |-> body["price"],
     description |-> Field(body, "description", None),
     photo_urls |-> Field(body, "photo_urls", Some(<< >>)),
     created_at |-> t,
     updated_at |-> None]

\* Order(id=new_id, pet_id=order.pet_id, ..., complete=order.complete)
NewOrder(id, body, t) ==
    [id |-> id,
     pet_id |-> body["pet_id"],
     user_id |-> body["user_id"],
     quantity |-> body["quantity"],
     ship_date |-> Field(body, "ship_date", None),
     status |-> Field(body, "status", "placed"),
     complete |-> Field(body, "complete", FALSE),
     created_at |-> t,
     updated_at |-> None]

\* User(id=new_id, username=user.username, ..., user_status=user.user_status)
NewUser(id, body, t) ==
    [id |-> id,
     username |-> body["username"],
     first_name |-> body["first_name"],
     last_name |-> body["last_name"],
     email |-> body["email"],
     phone |-> Field(body, "phone", None),
     password |-> body["password"],
     user_status |-> Field(body, "user_status", 1),
     created_at |-> t,
     updated_at |-> None]

\* UserResponse(**user.dict()): the projection has no password field
UserResponse(user) ==
    [id |-> user.id, username |-> user.username,
     first_name |-> user.first_name, last_name |-> user.last_name,
     email |-> user.email, phone |-> user.phone,
     user_status |-> user.user_status,
     created_at |-> user.created_at, updated_at |-> user.updated_at]

\* PetResponse(**pet.dict()): the projection copies every field of Pet
PetResponse(pet) ==
    [id |-> pet.id, name |-> pet.name, category |-> pet.category,
     status |-> pet.status, tags |-> pet.tags, price |-> pet.price,
     description |-> pet.description, photo_urls |-> pet.photo_urls,
     created_at |-> pet.created_at, updated_at |-> pet.updated_at]

\* OrderResponse(**order.dict()): the projection copies every field of Order
OrderResponse(order) ==
    [id |-> order.id, pet_id |-> order.pet_id, user_id |-> order.user_id,
     quantity |-> order.quantity, ship_date |-> order.ship_date,
     status |-> order.status, complete |-> order.complete,
     created_at |-> order.created_at, updated_at |-> order.updated_at]

\* ApiResponse(code=200, type="success",
\*             message=f"{what} {id} deleted successfully")
ApiResponse(what, id, t) ==
    [code |-> 200, type |-> "success",
     message |-> <<what, id, "deleted successfully">>, timestamp |-> t]

\* [x for x in db if x.status == status], applied only when the filter is truthy
FilterBy(db, f, v) ==
    IF IsNone(v) THEN db
    ELSE LET Keep(x) == x[f] = v IN SelectSeq(db, Keep)

FilterPets(db, status, category) ==
    FilterBy(FilterBy(db, "status", status), "category", category)

\* get_inventory's loop: inventory[status] += 1 for each pet, in order
RECURSIVE Tally(_, _)
Tally(db, inventory) ==
    IF db = << >> THEN inventory
    ELSE LET status == Get(Head(db).status)
             seen == IF status \in DOMAIN inventory THEN inventory
                     ELSE [k \in DOMAIN inventory \cup {status} |->
                             IF k = status THEN 0 ELSE inventory[k]]
         IN Tally(Tail(db), [seen EXCEPT ![status] = @ + 1])

EmptyMap == [k \in {} |-> 0]

(***************************************************************************)
(* Responses                                                               *)
(***************************************************************************)
Ok(code, body) == [code |-> code, detail |-> "", body |-> body]

Error(code, detail) == [code |-> code, detail |-> detail, body |-> None]

\* FastAPI's answer to a body or query that fails validation
Unprocessable == Error(422, "validation error")

\* Starlette's answer to an exception that no handler catches
ServerError == Error(500, "Internal Server Error")

Req(op, id, body, query) == [op |-> op, id |-> id, body |-> body, query |-> query]

NoQuery == [limit |-> LimitDefault, offset |-> 0]

\* The accepted request that a handler call for req belongs to: requests
\* that are equal call the handler in the order they were accepted.
FirstPending(tasks, req) ==
    LET S == { k \in 1..Len(tasks) :
                 /\ ~tasks[k].served
                 /\ tasks[k].request.op = req.op
                 /\ tasks[k].request = req }
    IN IF S = {} THEN 0 ELSE Min(S)

Served(tasks, req) ==
    LET k == FirstPending(tasks, req)
    IN IF k = 0 THEN tasks ELSE [tasks EXCEPT ![k].served = TRUE]

\* One request is served per step; its handler reads the clock at most once.
Serve(req) ==
    /\ clock < horizon
    /\ clock' = clock + 1
    /\ request' = req
    /\ horizon' = horizon
    /\ inflight' = Served(inflight, req)

Held(c, id) ==
    /\ everHeld' = [everHeld EXCEPT ![c] = @ \cup {id}]
    /\ created' = [created EXCEPT ![c] = Append(@, id)]

(***************************************************************************)
(* Initial state: the module has been imported, the seed rows are stored.  *)
(***************************************************************************)
Init ==
    /\ pets_db = SamplePets
    /\ orders_db = << >>
    /\ users_db = SampleUsers
    /\ clock = 0
    /\ request = Req("startup", 0, None, NoQuery)
    /\ response = Ok(200, None)
    /\ everHeld = [pets |-> Ids(SamplePets), orders |-> {}, users |-> Ids(SampleUsers)]
    /\ gone = [pets |-> {}, orders |-> {}, users |-> {}]
    /\ created = [pets |-> << >>, orders |-> << >>, users |-> << >>]
    /\ horizon = MaxClock
    /\ inflight = << >>

(***************************************************************************)
(* Pet handlers                                                            *)
(***************************************************************************)
\* GET /pets
get_pets(status, category, limit, offset) ==
    /\ Serve(Req("get_pets", 0, None,
                 [status |-> status, category |-> category,
                  limit |-> limit, offset |-> offset]))
    /\ response' =
         IF ~ValidPage(limit, offset) THEN Unprocessable
         ELSE LET filtered_pets == FilterPets(pets_db, status, category)
                  paginated_pets == PySlice(filtered_pets, offset, offset + limit)
              IN IF \E i \in 1..Len(paginated_pets) :
                        ~ValidPetResponse(paginated_pets[i])
                 THEN ServerError
                 ELSE Ok(200, [i \in 1..Len(paginated_pets) |->
                                 PetResponse(paginated_pets[i])])
    /\ UNCHANGED <<pets_db, orders_db, users_db, everHeld, created, gone>>

\* GET /pets/{pet_id}
get_pet(pet_id) ==
    /\ Serve(Req("get_pet", pet_id, None, NoQuery))
    /\ response' =
         LET i == Find(pets_db, pet_id)
         IN IF i = 0 THEN Error(404, "Pet not found")
            ELSE IF ~ValidPetResponse(pets_db[i]) THEN ServerError
            ELSE Ok(200, PetResponse(pets_db[i]))
    /\ UNCHANGED <<pets_db, orders_db, users_db, everHeld, created, gone>>

\* POST /pets
create_pet(pet) ==
    /\ Serve(Req("create_pet", 0, pet, NoQuery))
    /\ IF ~ValidPetCreate(pet)
       THEN /\ response' = Unprocessable
            /\ UNCHANGED <<pets_db, everHeld, created, gone>>
       ELSE LET new_id == NewId(pets_db)
                new_pet == NewPet(new_id, pet, clock + 1)
            IN /\ pets_db' = Append(pets_db, new_pet)
               /\ response' = Ok(201, PetResponse(new_pet))
               /\ Held("pets", new_id)
               /\ gone' = [gone EXCEPT !.pets = {}]
    /\ UNCHANGED <<orders_db, users_db>>

\* PUT /pets/{pet_id}; pet_update is None when the request has no body.
\* The list is written (line 180) before the response is built (line 181).
update_pet(pet_id, pet_update) ==
    /\ Serve(Req("update_pet", pet_id, pet_update, NoQuery))
    /\ LET i == Find(pets_db, pet_id)
       IN IF ~IsNone(pet_update) /\ ~ValidPetUpdate(Get(pet_update))
          THEN response' = Unprocessable /\ UNCHANGED pets_db
          ELSE IF i = 0
          THEN response' = Error(404, "Pet not found") /\ UNCHANGED pets_db
          ELSE IF IsNone(pet_update)
          THEN response' = ServerError /\ UNCHANGED pets_db
          ELSE LET updated_pet ==
                       ApplyUpdate(pets_db[i], Get(pet_update), clock + 1)
               IN /\ pets_db' = [pets_db EXCEPT ![i] = updated_pet]
                  /\ response' = IF ValidPetResponse(updated_pet)
                                 THEN Ok(200, PetResponse(updated_pet))
                                 ELSE ServerError
    /\ UNCHANGED <<orders_db, users_db, everHeld, created, gone>>

\* DELETE /pets/{pet_id}
delete_pet_cascade(pet_id) ==
    /\ Serve(Req("delete_pet", pet_id, None, NoQuery))
    /\ LET i == Find(pets_db, pet_id)
           Other(o) == o.pet_id # pet_id
       IN IF i = 0
          THEN /\ response' = Error(404, "Pet not found")
               /\ UNCHANGED <<pets_db, orders_db, gone>>
          ELSE /\ pets_db' = DeleteAt(pets_db, i)
               /\ orders_db' = SelectSeq(orders_db, Other)
               /\ response' = Ok(200, ApiResponse("Pet", pet_id, clock + 1))
               /\ gone' = [gone EXCEPT !.pets = @ \cup {pet_id}]
    /\ UNCHANGED <<users_db, everHeld, created>>

delete_pet(pet_id) ==
    /\ Serve(Req("delete_pet", pet_id, None, NoQuery))
    /\ LET i == Find(pets_db, pet_id)
       IN IF i = 0
          THEN /\ response' = Error(404, "Pet not found")
               /\ UNCHANGED <<pets_db, gone>>
          ELSE /\ pets_db' = DeleteAt(pets_db, i)
               /\ response' = Ok(200, ApiResponse("Pet", pet_id, clock + 1))
               /\ gone' = [gone EXCEPT !.pets = @ \cup {pet_id}]
    /\ UNCHANGED <<orders_db, users_db, everHeld, created>>

\* GET /inventory; pet.status.value raises when a stored status is None
get_inventory ==
    /\ Serve(Req("get_inventory", 0, None, NoQuery))
    /\ response' =
         IF \E i \in 1..Len(pets_db) : IsNone(pets_db[i].status)
         THEN ServerError
         ELSE Ok(200, Tally(pets_db, EmptyMap))
    /\ UNCHANGED <<pets_db, orders_db, users_db, everHeld, created, gone>>

(***************************************************************************)
(* Order handlers                                                          *)
(***************************************************************************)
\* GET /orders
get_orders(status, limit, offset) ==
    /\ Serve(Req("get_orders", 0, None,
                 [status |-> status, limit |-> limit, offset |-> offset]))
    /\ response' =
         IF ~ValidPage(limit, offset) THEN Unprocessable
         ELSE LET filtered_orders ==
                      IF IsNone(status) THEN orders_db
                      ELSE LET Keep(o) == o.status = Get(status)
                           IN SelectSeq(orders_db, Keep)
                  paginated_orders ==
                      PySlice(filtered_orders, offset, offset + limit)
              IN Ok(200, [i \in 1..Len(paginated_orders) |->
                            OrderResponse(paginated_orders[i])])
    /\ UNCHANGED <<pets_db, orders_db, users_db, everHeld, created, gone>>

\* GET /orders/{order_id}
get_order(order_id) ==
    /\ Serve(Req("get_order", order_id, None, NoQuery))
    /\ response' =
         LET i == Find(orders_db, order_id)
         IN IF i = 0 THEN Error(404, "Order not found")
            ELSE Ok(200, OrderResponse(orders_db[i]))
    /\ UNCHANGED <<pets_db, orders_db, users_db, everHeld, created, gone>>

\* POST /orders
create_order(order) ==
    /\ Serve(Req("create_order", 0, order, NoQuery))
    /\ IF ~ValidOrderCreate(order)
       THEN /\ response' = Unprocessable
            /\ UNCHANGED <<orders_db, everHeld, created, gone>>
       ELSE IF ~Exists(pets_db, order["pet_id"])
       THEN /\ response' = Error(400, "Pet not found")
            /\ UNCHANGED <<orders_db, everHeld, created, gone>>
       ELSE IF ~Exists(users_db, order["user_id"])
       THEN /\ response' = Error(400, "User not found")
            /\ UNCHANGED <<orders_db, everHeld, created, gone>>
       ELSE LET new_id == NewId(orders_db)
                new_order == NewOrder(new_id, order, clock + 1)
            IN /\ orders_db' = Append(orders_db, new_order)
               /\ response' = Ok(201, OrderResponse(new_order))
               /\ Held("orders", new_id)
               /\ gone' = [gone EXCEPT !.orders = {}]
    /\ UNCHANGED <<pets_db, users_db>>

\* DELETE /orders/{order_id}
delete_order(order_id) ==
    /\ Serve(Req("delete_order", order_id, None, NoQuery))
    /\ LET i == Find(orders_db, order_id)
       IN IF i = 0
          THEN /\ response' = Error(404, "Order not found")
               /\ UNCHANGED <<orders_db, gone>>
          ELSE /\ orders_db' = DeleteAt(orders_db, i)
               /\ response' = Ok(200, ApiResponse("Order", order_id, clock + 1))
               /\ gone' = [gone EXCEPT !.orders = @ \cup {order_id}]
    /\ UNCHANGED <<pets_db, users_db, everHeld, created>>

(***************************************************************************)
(* User handlers                                                           *)
(***************************************************************************)
\* GET /users
get_users(limit, offset) ==
    /\ Serve(Req("get_users", 0, None, [limit |-> limit, offset |-> offset]))
    /\ response' =
         IF ~ValidPage(limit, offset) THEN Unprocessable
         ELSE LET paginated_users == PySlice(users_db, offset, offset + limit)
              IN Ok(200, [i \in 1..Len(paginated_users) |->
                            UserResponse(paginated_users[i])])
    /\ UNCHANGED <<pets_db, orders_db, users_db, everHeld, created, gone>>

\* GET /users/{user_id}
get_user(user_id) ==
    /\ Serve(Req("get_user", user_id, None, NoQuery))
    /\ response' =
         LET i == Find(users_db, user_id)
         IN IF i = 0 THEN Error(404, "User not found")
            ELSE Ok(200, UserResponse(users_db[i]))
    /\ UNCHANGED <<pets_db, orders_db, users_db, everHeld, created, gone>>

\* any(u.username == user.username for u in users_db), likewise for email
UsernameTakenByEmail(db, username) == \E i \in 1..Len(db) : db[i].email = username

UsernameTaken(db, username) == \E i \in 1..Len(db) : db[i].username = username

EmailTakenByUsername(db, email) == \E i \in 1..Len(db) : db[i].username = email

EmailTaken(db, email) == \E i \in 1..Len(db) : db[i].email = email

\* POST /users
create_user(user) ==
    /\ Serve(Req("create_user", 0, user, NoQuery))
    /\ IF ~ValidUserCreate(user)
       THEN /\ response' = Unprocessable
            /\ UNCHANGED <<users_db, everHeld, created, gone>>
       ELSE IF UsernameTaken(users_db, user["username"])
       THEN /\ response' = Error(400, "Username already exists")
            /\ UNCHANGED <<users_db, everHeld, created, gone>>
       ELSE IF EmailTaken(users_db, user["email"])
       THEN /\ response' = Error(400, "Email already exists")
            /\ UNCHANGED <<users_db, everHeld, created, gone>>
       ELSE LET new_id == NewId(users_db)
                new_user == NewUser(new_id, user, clock + 1)
            IN /\ users_db' = Append(users_db, new_user)
               /\ response' = Ok(201, UserResponse(new_user))
               /\ Held("users", new_id)
               /\ gone' = [gone EXCEPT !.users = {}]
    /\ UNCHANGED <<pets_db, orders_db>>

\* DELETE /users/{user_id}
delete_user_soft(user_id) ==
    /\ Serve(Req("delete_user", user_id, None, NoQuery))
    /\ LET i == Find(users_db, user_id)
       IN IF i = 0
          THEN /\ response' = Error(404, "User not found")
               /\ UNCHANGED <<users_db, gone>>
          ELSE /\ users_db' = [users_db EXCEPT ![i].user_status = 0,
                                               ![i].updated_at = Some(clock + 1)]
               /\ response' = Ok(200, ApiResponse("User", user_id, clock + 1))
               /\ gone' = [gone EXCEPT !.users = @ \cup {user_id}]
    /\ UNCHANGED <<pets_db, orders_db, everHeld, created>>

delete_user(user_id) ==
    /\ Serve(Req("delete_user", user_id, None, NoQuery))
    /\ LET i == Find(users_db, user_id)
       IN IF i = 0
          THEN /\ response' = Error(404, "User not found")
               /\ UNCHANGED <<users_db, gone>>
          ELSE /\ users_db' = DeleteAt(users_db, i)
               /\ response' = Ok(200, ApiResponse("User", user_id, clock + 1))
               /\ gone' = [gone EXCEPT !.users = @ \cup {user_id}]
    /\ UNCHANGED <<pets_db, orders_db, everHeld, created>>

(***************************************************************************)
(* Root and health                                                         *)
(***************************************************************************)
HealthResponse(message, t) ==
    [message |-> message, status |-> "healthy", version |-> "1.0.0",
     timestamp |-> t]

\* GET /
root ==
    /\ Serve(Req("root", 0, None, NoQuery))
    /\ response' = Ok(200, HealthResponse("Pet Store API is running!", clock + 1))
    /\ UNCHANGED <<pets_db, orders_db, users_db, everHeld, created, gone>>

\* GET /health
health_check ==
    /\ Serve(Req("health_check", 0, None, NoQuery))
    /\ response' = Ok(200, HealthResponse("Service is healthy", clock + 1))
    /\ UNCHANGED <<pets_db, orders_db, users_db, everHeld, created, gone>>

(***************************************************************************)
(* The requests a client sends                                             *)
(***************************************************************************)
AbsentId == 999

\* Path ids: the seed ids, the first id a create can assign, and an id that
\* no record ever has.
PetIdInputs == {1, 3, 4, AbsentId}

OrderIdInputs == {1, AbsentId}

UserIdInputs == {1, 2, 3, AbsentId}

PetCreateInputs ==
    { [name |-> Some("Fluffy"), category |-> Some("cat"),
       status |-> Some("available"), tags |-> Some(<<"cute", "fluffy">>),
       price |-> Some(19999), description |-> Some("A fluffy white cat"),
       photo_urls |-> Some(<<"https://example.com/fluffy1.jpg">>)],
      [name |-> Some("Test Pet"), category |-> Some("dog"),
       tags |-> Some(<<"test">>), price |-> Some(9999),
       description |-> Some("A test pet")],
      [name |-> Some("Rex"), category |-> Some("dog"),
       status |-> Some("pending"), price |-> Some(100)],
      [name |-> Some("Goldie"), category |-> Some("fish"),
       status |-> Some("sold"), price |-> Some(100), description |-> None],
      [name |-> Some(""), price |-> Some(-1000)] }

PetUpdateInputs ==
    { None,
      Some([name |-> Some("Buddy Updated"), price |-> Some(34999)]),
      Some([status |-> Some("available")]),
      Some([status |-> Some("pending")]),
      Some([status |-> Some("sold")]),
      Some(<< >>),
      Some([description |-> None]),
      Some([name |-> None]),
      Some([status |-> None]),
      Some([name |-> Some("")]) }

StatusInputs == {None, Some("available"), Some("sold")}

CategoryInputs == {None, Some("dog")}

\* <<limit, offset>>
PageInputs == {<<LimitDefault, 0>>, <<2, 0>>, <<2, 2>>, <<1, 3>>, <<0, 0>>}

OrderCreateInputs ==
    { [pet_id |-> p, user_id |-> u, quantity |-> q] :
        p \in {1, AbsentId}, u \in {1, AbsentId}, q \in {0, 1} }

OrderStatusInputs == {None, Some("placed")}

UserCreateInputs ==
    { [username |-> n, first_name |-> "New", last_name |-> "User",
       email |-> e, password |-> pw] :
        n \in {"johndoe", "Johndoe", "newuser"},
        e \in {"john@example.com", "newuser@example.com"},
        pw \in {"password123", "short"} }

Next ==
    \/ \E s \in StatusInputs, c \in CategoryInputs, pg \in PageInputs :
         get_pets(s, c, pg[1], pg[2])
    \/ \E id \in PetIdInputs : get_pet(id)
    \/ \E pet \in PetCreateInputs : create_pet(pet)
    \/ \E id \in PetIdInputs, u \in PetUpdateInputs : update_pet(id, u)
    \/ \E id \in PetIdInputs : delete_pet(id)
    \/ \E s \in OrderStatusInputs, pg \in PageInputs :
         get_orders(s, pg[1], pg[2])
    \/ \E id \in OrderIdInputs : get_order(id)
    \/ \E order \in OrderCreateInputs : create_order(order)
    \/ \E id \in OrderIdInputs : delete_order(id)
    \/ \E pg \in PageInputs : get_users(pg[1], pg[2])
    \/ \E id \in UserIdInputs : get_user(id)
    \/ \E user \in UserCreateInputs : create_user(user)
    \/ \E id \in UserIdInputs : delete_user(id)
    \/ get_inventory
    \/ root
    \/ health_check

Spec == Init /\ [][Next]_vars

(***************************************************************************)
(* Runs of creates and deletes only, one body per create, so that longer   *)
(* histories of id assignment are covered.                                 *)
(***************************************************************************)
IdInit ==
    /\ pets_db = SamplePets
    /\ orders_db = << >>
    /\ users_db = SampleUsers
    /\ clock = 0
    /\ request = Req("startup", 0, None, NoQuery)
    /\ response = Ok(200, None)
    /\ everHeld = [pets |-> Ids(SamplePets), orders |-> {}, users |-> Ids(SampleUsers)]
    /\ gone = [pets |-> {}, orders |-> {}, users |-> {}]
    /\ created = [pets |-> << >>, orders |-> << >>, users |-> << >>]
    /\ horizon = MaxIdClock
    /\ inflight = << >>

IdPetCreateInputs ==
    { [name |-> Some("Rex"), category |-> Some("dog"),
       status |-> Some("pending"), price |-> Some(100)] }

IdOrderCreateInputs == { [pet_id |-> 1, user_id |-> 1, quantity |-> 1] }

IdUserCreateInputs ==
    { [username |-> "newuser", first_name |-> "New", last_name |-> "User",
       email |-> "newuser@example.com", password |-> "password123"] }

IdNext ==
    \/ \E pet \in IdPetCreateInputs : create_pet(pet)
    \/ \E id \in PetIdInputs : delete_pet(id)
    \/ \E order \in IdOrderCreateInputs : create_order(order)
    \/ \E id \in OrderIdInputs : delete_order(id)
    \/ \E user \in IdUserCreateInputs : create_user(user)
    \/ \E id \in UserIdInputs : delete_user(id)

IdSpec == IdInit /\ [][IdNext]_vars

(***************************************************************************)
(* Concurrent clients.  The server accepts a request (it reads and checks  *)
(* the body, which awaits the network) and calls the handler later; other  *)
(* requests are accepted and other handlers run in between, in any order.  *)
(* The handler itself is a coroutine without an await: once called it runs *)
(* to its return on the lists as they are at that moment.                  *)
(***************************************************************************)
ConcInit ==
    /\ pets_db = SamplePets
    /\ orders_db = << >>
    /\ users_db = SampleUsers
    /\ clock = 0
    /\ request = Req("startup", 0, None, NoQuery)
    /\ response = Ok(200, None)
    /\ everHeld = [pets |-> Ids(SamplePets), orders |-> {}, users |-> Ids(SampleUsers)]
    /\ gone = [pets |-> {}, orders |-> {}, users |-> {}]
    /\ created = [pets |-> << >>, orders |-> << >>, users |-> << >>]
    /\ horizon = MaxTasks
    /\ inflight = << >>

\* Two clients may send the same body; two user bodies share a username and
\* differ in the email; the two updates of pet 1 set different fields.
ConcCreateInputs ==
    { Req("create_pet", 0, pet, NoQuery) : pet \in IdPetCreateInputs }
    \cup
    { Req("create_user", 0,
          [username |-> "newuser", first_name |-> "New", last_name |-> "User",
           email |-> e, password |-> "password123"], NoQuery) :
        e \in {"newuser@example.com", "second@example.com"} }

ConcUpdateInputs ==
    { Req("update_pet", 1, u, NoQuery) :
        u \in { Some([name |-> Some("Buddy Updated"), price |-> Some(34999)]),
                Some([status |-> Some("sold")]) } }

\* The server accepts a request; its handler has not been called yet.
submit(req) ==
    /\ Len(inflight) < horizon
    /\ inflight' = Append(inflight,
                          [request |-> req,
                           seen |-> [pets_db |-> pets_db, users_db |-> users_db],
                           served |-> FALSE])
    /\ UNCHANGED <<pets_db, orders_db, users_db, clock, request, response,
                   everHeld, gone, created, horizon>>

\* The k-th accepted request is the next one whose handler op is called.
Pending(k, op) ==
    /\ k \in 1..Len(inflight)
    /\ inflight[k].request.op = op
    /\ k = FirstPending(inflight, inflight[k].request)

\* create_pet suspended between its scan and its append
run_create_pet_suspended(k) ==
    /\ Pending(k, "create_pet")
    /\ Serve(inflight[k].request)
    /\ LET new_id == NewId(inflight[k].seen.pets_db)
           new_pet == NewPet(new_id, inflight[k].request.body, clock + 1)
       IN /\ pets_db' = Append(pets_db, new_pet)
          /\ response' = Ok(201, PetResponse(new_pet))
          /\ Held("pets", new_id)
          /\ gone' = [gone EXCEPT !.pets = {}]
    /\ UNCHANGED <<orders_db, users_db>>

run_create_pet(k) ==
    /\ Pending(k, "create_pet")
    /\ create_pet(inflight[k].request.body)

run_create_user(k) ==
    /\ Pending(k, "create_user")
    /\ create_user(inflight[k].request.body)

run_update_pet(k) ==
    /\ Pending(k, "update_pet")
    /\ update_pet(inflight[k].request.id, inflight[k].request.body)

ConcNext ==
    \/ \E req \in ConcCreateInputs : submit(req)
    \/ \E req \in ConcUpdateInputs : submit(req)
    \/ \E k \in 1..MaxTasks : run_create_pet(k)
    \/ \E k \in 1..MaxTasks : run_create_user(k)
    \/ \E k \in 1..MaxTasks : run_update_pet(k)

ConcSpec == ConcInit /\ [][ConcNext]_vars

(***************************************************************************)
(* Properties                                                              *)
(***************************************************************************)
Created(op) == request'.op = op /\ response'.code = 201

\* One more than the largest id of db, or 1 when db is empty
NextAfterMax(db, id) ==
    IF Len(db) = 0 THEN id = 1
    ELSE \E m \in Ids(db) : (\A j \in Ids(db) : j <= m) /\ id = m + 1

\* The record a create stored is the last one and carries the returned id
StoredLast(db, id) == Len(db) > 0 /\ db[Len(db)].id = id

\* C1: every successful create (POST /pets, POST /orders, POST /users) gives
\* the new record the id max+1 of the ids that were in that collection just
\* before the create, or 1 if the collection was empty.
C1_CreateAssignsMaxPlusOne ==
    [][ /\ Created("create_pet") =>
             /\ NextAfterMax(pets_db, response'.body.id)
             /\ StoredLast(pets_db', response'.body.id)
        /\ Created("create_order") =>
             /\ NextAfterMax(orders_db, response'.body.id)
             /\ StoredLast(orders_db', response'.body.id)
        /\ Created("create_user") =>
             /\ NextAfterMax(users_db, response'.body.id)
             /\ StoredLast(users_db', response'.body.id) ]_vars

\* A pet was created with id 4 after a seed pet had been deleted (so the id
\* is max+1 and not length+1), and the first order, created in an empty
\* collection, has id 1.
C1_Witness ==
    /\ request.op = "create_pet" /\ response.code = 201
    /\ response.body.id = 4 /\ Len(pets_db) = 3
    /\ Len(orders_db) = 1 /\ orders_db[1].id = 1

UniqueIds(db) ==
    \A i, j \in 1..Len(db) : i # j => db[i].id # db[j].id

\* C2: in every reachable state no two records of the same collection have
\* the same id.
C2_IdsUnique == UniqueIds(pets_db) /\ UniqueIds(orders_db) /\ UniqueIds(users_db)

\* A pet was deleted, another created and a third updated.
C2_Witness ==
    /\ Len(pets_db) = 3
    /\ \E i \in 1..Len(pets_db) : pets_db[i].created_at > 0
    /\ \E i \in 1..Len(pets_db) : ~IsNone(pets_db[i].updated_at)

\* C3 as stated: the id of a newly created pet was never held by a pet
\* before, deleted pets included.
C3_NeverReused ==
    [][ Created("create_pet") => response'.body.id \notin everHeld.pets ]_vars

\* C3 as amended: the id of a newly created pet differs from the id of every
\* pet in the collection, and an id held earlier is assigned again only when
\* it is larger than every id still in the collection.
C3_ReusedOnlyAboveMax ==
    [][ Created("create_pet") =>
          /\ response'.body.id \notin Ids(pets_db)
          /\ response'.body.id \in everHeld.pets =>
               \A j \in Ids(pets_db) : j < response'.body.id ]_vars

\* A create has just handed out the id of a deleted seed pet.
C3_Witness ==
    /\ request.op = "create_pet" /\ response.code = 201
    /\ response.body.id \in Ids(SamplePets)
    /\ response.body.created_at > 0

\* C4: after a successful delete of an id, and with no create in that
\* collection since, fetching the id yields 404.
C4_DeletedThenNotFound ==
    /\ (request.op = "get_pet" /\ request.id \in gone.pets) =>
         (response.code = 404 /\ response.detail = "Pet not found")
    /\ (request.op = "get_order" /\ request.id \in gone.orders) =>
         (response.code = 404 /\ response.detail = "Order not found")
    /\ (request.op = "get_user" /\ request.id \in gone.users) =>
         (response.code = 404 /\ response.detail = "User not found")

\* A deleted pet has just been fetched.
C4_Witness == request.op = "get_pet" /\ request.id \in gone.pets

PetUpdateFields ==
    {"name", "category", "status", "tags", "price", "description", "photo_urls"}

\* C5: a successful PUT /pets/{id} leaves every field that the payload omits,
\* the id and created_at as they were, and updated_at is set afterwards.
C5_UpdateFrame ==
    [][ (request'.op = "update_pet" /\ response'.code = 200) =>
          /\ Len(pets_db') = Len(pets_db)
          /\ \A i \in 1..Len(pets_db) :
               IF pets_db[i].id = request'.id
               THEN /\ \A f \in PetUpdateFields \ DOMAIN Get(request'.body) :
                         pets_db'[i][f] = pets_db[i][f]
                    /\ pets_db'[i].id = pets_db[i].id
                    /\ pets_db'[i].created_at = pets_db[i].created_at
                    /\ ~IsNone(pets_db'[i].updated_at)
               ELSE pets_db'[i] = pets_db[i] ]_vars

\* A PUT that sent only name and price has succeeded.
C5_Witness ==
    /\ request.op = "update_pet" /\ response.code = 200
    /\ DOMAIN Get(request.body) = {"name", "price"}
    /\ response.body.name = Some("Buddy Updated")

DanglingOrder(order) ==
    \/ order["pet_id"] \notin Ids(pets_db)
    \/ order["user_id"] \notin Ids(users_db)

\* C6 as stated: POST /orders naming an absent pet or user fails with 400 and
\* leaves the orders unchanged.
C6_DanglingAlways400 ==
    [][ (request'.op = "create_order" /\ DanglingOrder(request'.body)) =>
          (response'.code = 400 /\ orders_db' = orders_db) ]_vars

\* C6 as amended: a POST /orders body that passes validation and names an
\* absent pet or user fails with 400; a body that fails validation fails with
\* 422; in both cases the orders are unchanged.
C6_DanglingValid400 ==
    [][ (request'.op = "create_order" /\ DanglingOrder(request'.body)) =>
          /\ orders_db' = orders_db
          /\ response'.code = IF request'.body["quantity"] > 0 THEN 400 ELSE 422
      ]_vars

\* A valid order for an existing pet and an absent user was refused.
C6_Witness ==
    /\ request.op = "create_order" /\ request.body["quantity"] > 0
    /\ request.body["pet_id"] \in Ids(pets_db)
    /\ request.body["user_id"] \notin Ids(users_db)
    /\ response.code = 400 /\ response.detail = "User not found"

Collides(user) ==
    \/ \E i \in 1..Len(users_db) : users_db[i].username = user["username"]
    \/ \E i \in 1..Len(users_db) : users_db[i].email = user["email"]

\* C7 as stated: POST /users with a username or an email that an existing
\* user has fails with 400 and leaves the users unchanged.
C7_CollisionAlways400 ==
    [][ (request'.op = "create_user" /\ Collides(request'.body)) =>
          (response'.code = 400 /\ users_db' = users_db) ]_vars

\* C7 as amended: a POST /users body that passes validation and collides on
\* username or email fails with 400; a body that fails validation fails with
\* 422; in both cases the users are unchanged.
C7_CollisionValid400 ==
    [][ (request'.op = "create_user" /\ Collides(request'.body)) =>
          /\ users_db' = users_db
          /\ response'.code =
               IF Len(request'.body["password"]) >= PasswordMinLen
               THEN 400 ELSE 422 ]_vars

\* A valid body with a fresh username and a taken email was refused.
C7_Witness ==
    /\ request.op = "create_user"
    /\ Len(request.body["password"]) >= PasswordMinLen
    /\ \A i \in 1..Len(users_db) : users_db[i].username # request.body["username"]
    /\ \E i \in 1..Len(users_db) : users_db[i].email = request.body["email"]
    /\ response.code = 400 /\ response.detail = "Email already exists"

\* C8: in every reachable state no two users share a username and no two
\* users share an email.
C8_UsersDistinct ==
    \A i, j \in 1..Len(users_db) :
        i # j => /\ users_db[i].username # users_db[j].username
                 /\ users_db[i].email # users_db[j].email

\* A user was created and a user was deleted after that.
C8_Witness ==
    /\ gone.users # {}
    /\ \E i \in 1..Len(users_db) : users_db[i].created_at > 0

StatusesHeld == {pets_db[i].status : i \in 1..Len(pets_db)}

RECURSIVE SumOver(_, _)
SumOver(m, keys) ==
    IF keys = {} THEN 0
    ELSE LET k == CHOOSE x \in keys : TRUE
         IN m[k] + SumOver(m, keys \ {k})

\* C9: GET /inventory returns a map whose keys are exactly the statuses held
\* by at least one pet, each with the number of pets holding it, so the values
\* sum to the number of pets and none is 0.
C9_InventoryCounts ==
    request.op = "get_inventory" =>
        /\ response.code = 200
        /\ {Some(k) : k \in DOMAIN response.body} = StatusesHeld
        /\ \A k \in DOMAIN response.body :
             /\ response.body[k] =
                  Cardinality({i \in 1..Len(pets_db) : pets_db[i].status = Some(k)})
             /\ response.body[k] # 0
        /\ SumOver(response.body, DOMAIN response.body) = Len(pets_db)

Matches(pet, q) ==
    /\ ~IsNone(q.status) => pet.status = q.status
    /\ ~IsNone(q.category) => pet.category = q.category

Matching(q) == LET Keep(pet) == Matches(pet, q) IN SelectSeq(pets_db, Keep)

\* C10: GET /pets with limit in 1..100 and offset >= 0 returns the elements at
\* positions [offset, offset+limit) of the pets matching every given filter,
\* in collection order: at most limit items, and an empty list when offset is
\* at or beyond the filtered size.
C10_PageOfMatching ==
    (request.op = "get_pets" /\ ValidPage(request.query.limit, request.query.offset)) =>
        LET q == request.query
            size == Len(Matching(q))
            count == IF q.offset >= size THEN 0
                     ELSE IF size - q.offset < q.limit THEN size - q.offset
                     ELSE q.limit
        IN /\ response.code = 200
           /\ Len(response.body) = count
           /\ \A k \in 1..count :
                response.body[k] = PetResponse(Matching(q)[q.offset + k])

Failed == response'.code \notin {200, 201}

\* C11: a request that is answered with an error leaves the pets, the orders
\* and the users exactly as they were.
C11_ErrorsChangeNothing ==
    [][ Failed => /\ pets_db' = pets_db
                  /\ orders_db' = orders_db
                  /\ users_db' = users_db ]_vars

NonDecreasing(ids) ==
    \A i, j \in 1..Len(ids) : i < j => ids[i] <= ids[j]

\* C12 as stated: in each collection the ids that successful creates assign
\* never decrease, whatever deletes happen in between.
C12_AssignedNonDecreasing ==
    /\ NonDecreasing(created.pets)
    /\ NonDecreasing(created.orders)
    /\ NonDecreasing(created.users)

Last(ids) == ids[Len(ids)]

\* The id is above every stored id, and below the id of the previous create
\* only if the record of that create has been deleted.
AboveStored(db, ids, id) ==
    /\ \A j \in Ids(db) : j < id
    /\ (ids # << >> /\ id < Last(ids)) => Last(ids) \notin Ids(db)

\* C12 as amended: a successful create assigns an id greater than every id in
\* the collection at that time; it is smaller than the id assigned by the
\* previous create only when the record of that create has been deleted.
C12_AssignedAboveStored ==
    [][ /\ Created("create_pet") =>
             AboveStored(pets_db, created.pets, response'.body.id)
        /\ Created("create_order") =>
             AboveStored(orders_db, created.orders, response'.body.id)
        /\ Created("create_user") =>
             AboveStored(users_db, created.users, response'.body.id) ]_vars

\* A create has assigned a smaller id than an earlier create in the same
\* collection.
C12_Witness ==
    \/ ~NonDecreasing(created.pets)
    \/ ~NonDecreasing(created.users)

WellFormedPet(pet) ==
    /\ ~IsNone(pet.name)
    /\ Len(Get(pet.name)) >= NameMinLen /\ Len(Get(pet.name)) <= NameMaxLen
    /\ ~IsNone(pet.price) /\ Get(pet.price) > 0
    /\ ~IsNone(pet.category) /\ Get(pet.category) \in PetCategory
    /\ ~IsNone(pet.status) /\ Get(pet.status) \in PetStatus
    /\ ~IsNone(pet.tags)
    /\ ~IsNone(pet.photo_urls)

\* C13: every stored pet has a name of 1 to 100 characters, a positive price,
\* a category and a status of their enumerations, and lists of tags and
\* photo urls.
C13_StoredPetsWellFormed ==
    \A i \in 1..Len(pets_db) : WellFormedPet(pets_db[i])

PetRequests == {"get_pets", "get_pet", "create_pet", "update_pet", "delete_pet"}

OrderRequests == {"get_orders", "get_order", "create_order", "delete_order"}

UserRequests == {"get_users", "get_user", "create_user", "delete_user"}

\* C14: a pet request leaves orders and users unchanged, a user request leaves
\* pets and orders unchanged, an order request leaves pets and users
\* unchanged; so an order outlives the pet and the user it names, and
\* GET /orders/{id} still returns it.
C14_CollectionsIndependent ==
    [][ /\ request'.op \in PetRequests =>
             (orders_db' = orders_db /\ users_db' = users_db)
        /\ request'.op \in UserRequests =>
             (pets_db' = pets_db /\ orders_db' = orders_db)
        /\ request'.op \in OrderRequests =>
             (pets_db' = pets_db /\ users_db' = users_db)
        /\ request'.op = "get_order" =>
             \A i \in 1..Len(orders_db) :
                 orders_db[i].id = request'.id =>
                     /\ response'.code = 200
                     /\ response'.body = OrderResponse(orders_db[i]) ]_vars

\* An order whose pet has been deleted has just been fetched.
C14_Witness ==
    /\ request.op = "get_order" /\ response.code = 200
    /\ response.body.pet_id \notin Ids(pets_db)
    /\ \E i \in 1..Len(orders_db) : orders_db[i].id = request.id

\* Every record that is stored before and after a step is the same record
Untouched(before, after) ==
    \A i \in 1..Len(before), j \in 1..Len(after) :
        before[i].id = after[j].id => before[i] = after[j]

NeverUpdated(db) == \A i \in 1..Len(db) : IsNone(db[i].updated_at)

\* C15: from its creation to its deletion no request changes a field of an
\* order or of a user, and its updated_at stays unset.
C15_OrdersUsersImmutable ==
    [][ /\ Untouched(orders_db, orders_db') /\ NeverUpdated(orders_db')
        /\ Untouched(users_db, users_db') /\ NeverUpdated(users_db') ]_vars

\* An order and a created user are stored while a later request, here the
\* deletion of another user, is served.
C15_Witness ==
    /\ request.op = "delete_user" /\ response.code = 200
    /\ orders_db # << >>
    /\ \E i \in 1..Len(users_db) : users_db[i].created_at > 0

IdSeq(db) == [i \in 1..Len(db) |-> db[i].id]

\* after is before without the element at position k
Without(before, after, k) ==
    /\ Len(after) = Len(before) - 1
    /\ \A i \in 1..Len(after) :
         after[i] = IF i < k THEN before[i] ELSE before[i + 1]

Appended(before, after, id) ==
    /\ Len(after) = Len(before) + 1
    /\ \A i \in 1..Len(before) : after[i] = before[i]
    /\ after[Len(after)].id = id

Removed(before, after, id) ==
    \E k \in 1..Len(before) :
        /\ before[k].id = id
        /\ Without(before, after, k)
        /\ id \notin Ids(after)

\* C16: a successful create puts the new record last, a successful pet update
\* keeps the pet at its position, a successful delete removes the one record
\* with the given id and keeps the others in their order.
C16_InsertionOrderKept ==
    [][ /\ Created("create_pet") =>
             Appended(pets_db, pets_db', response'.body.id)
        /\ Created("create_order") =>
             Appended(orders_db, orders_db', response'.body.id)
        /\ Created("create_user") =>
             Appended(users_db, users_db', response'.body.id)
        /\ (request'.op = "update_pet" /\ response'.code = 200) =>
             /\ IdSeq(pets_db') = IdSeq(pets_db)
             /\ \A i \in 1..Len(pets_db) :
                  pets_db[i].id # request'.id => pets_db'[i] = pets_db[i]
        /\ (request'.op = "delete_pet" /\ response'.code = 200) =>
             Removed(pets_db, pets_db', request'.id)
        /\ (request'.op = "delete_order" /\ response'.code = 200) =>
             Removed(orders_db, orders_db', request'.id)
        /\ (request'.op = "delete_user" /\ response'.code = 200) =>
             Removed(users_db, users_db', request'.id) ]_vars

\* A pet in the middle of the list has just been deleted.
C16_Witness ==
    /\ request.op = "delete_pet" /\ response.code = 200 /\ request.id = 3
    /\ IdSeq(pets_db) = <<1, 2, 4>>

\* The body {"status": t} and nothing else
OnlyStatus(body) ==
    /\ ~IsNone(body) /\ DOMAIN Get(body) = {"status"}
    /\ ~IsNone(Get(body)["status"])

\* C18: for every stored pet, whatever its status, PUT /pets/{id} with a
\* status t succeeds and leaves the pet with status t; and POST /pets with
\* any of the three statuses succeeds and stores that status.
C18_AnyStatusTransition ==
    [][ /\ (request'.op = "update_pet" /\ OnlyStatus(request'.body)
              /\ request'.id \in Ids(pets_db)) =>
             /\ response'.code = 200
             /\ \A i \in 1..Len(pets_db') :
                  pets_db'[i].id = request'.id =>
                      pets_db'[i].status = Get(request'.body)["status"]
        /\ (request'.op = "create_pet" /\ ValidPetCreate(request'.body)
              /\ Has(request'.body, "status")) =>
             /\ response'.code = 201
             /\ response'.body.status = request'.body["status"] ]_vars

BothAbsent(order) ==
    /\ order["pet_id"] \notin Ids(pets_db)
    /\ order["user_id"] \notin Ids(users_db)

BothTaken(user) ==
    /\ \E i \in 1..Len(users_db) : users_db[i].username = user["username"]
    /\ \E i \in 1..Len(users_db) : users_db[i].email = user["email"]

\* C19 as stated: POST /orders naming an absent pet and an absent user fails
\* with "Pet not found"; POST /users with a taken username and a taken email
\* fails with "Username already exists".
C19_FirstGuardDetail ==
    [][ /\ (request'.op = "create_order" /\ BothAbsent(request'.body)) =>
             response'.detail = "Pet not found"
        /\ (request'.op = "create_user" /\ BothTaken(request'.body)) =>
             response'.detail = "Username already exists" ]_vars

\* C19 as amended: the guards run in the order validation, first check,
\* second check.  A body that fails validation is answered 422; a valid
\* POST /orders naming an absent pet and an absent user is answered 400
\* "Pet not found"; a valid POST /users with a taken username and a taken
\* email is answered 400 "Username already exists".
C19_GuardOrder ==
    [][ /\ (request'.op = "create_order" /\ BothAbsent(request'.body)) =>
             response' = IF request'.body["quantity"] > 0
                         THEN Error(400, "Pet not found")
                         ELSE Error(422, "validation error")
        /\ (request'.op = "create_user" /\ BothTaken(request'.body)) =>
             response' = IF Len(request'.body["password"]) >= PasswordMinLen
                         THEN Error(400, "Username already exists")
                         ELSE Error(422, "validation error") ]_vars

\* A valid body with a taken username and a taken email was refused for its
\* username.
C19_Witness ==
    /\ request.op = "create_user"
    /\ Len(request.body["password"]) >= PasswordMinLen
    /\ \E i \in 1..Len(users_db) : users_db[i].username = request.body["username"]
    /\ \E i \in 1..Len(users_db) : users_db[i].email = request.body["email"]
    /\ response.detail = "Username already exists"

(***************************************************************************)
(* C17: concurrent requests                                                *)
(***************************************************************************)
\* The handler of the k-th accepted request is called in this step.
Called(k) == ~inflight[k].served /\ inflight'[k].served

\* The step is the step the handler takes when r is the only request.
Serially(r) ==
    CASE r.op = "create_pet" -> create_pet(r.body)
      [] r.op = "create_user" -> create_user(r.body)
      [] r.op = "update_pet" -> update_pet(r.id, r.body)

DistinctUsernames(db) ==
    \A i, j \in 1..Len(db) : db[i].username = db[j].username => i = j

\* Every field that an answered update set is stored (the updates that are
\* sent set different fields, so none overwrites another).
NoLostUpdate ==
    \A k \in 1..Len(inflight) :
        LET r == inflight[k].request
        IN inflight[k].served /\ r.op = "update_pet" =>
             \A f \in DOMAIN Get(r.body) :
                 pets_db[Find(pets_db, r.id)][f] = Get(r.body)[f]

\* No create is lost: every called create_pet stored one more pet.
NoLostCreate ==
    Len(pets_db) = Len(SamplePets)
        + Cardinality({ k \in 1..Len(inflight) :
                          inflight[k].served /\ inflight[k].request.op = "create_pet" })

\* C17: whatever the order in which concurrent requests are accepted and
\* their handlers called, each handler call is the step that handler takes
\* on the lists as they are when it is called, so the outcome is that of
\* serving the requests one at a time in the order of the calls; ids stay
\* unique, usernames stay distinct (of two concurrent creates of a username
\* only one succeeds), and no create or update is lost.
C17_Serializable ==
    [][ /\ \A k \in 1..Len(inflight) : Called(k) => Serially(inflight[k].request)
        /\ UniqueIds(pets_db') /\ UniqueIds(users_db')
        /\ DistinctUsernames(users_db')
        /\ NoLostUpdate'
        /\ NoLostCreate' ]_vars

\* Two creates of the same username were accepted while the username was
\* free, both handlers have been called, and the second call was refused.
C17_Witness ==
    /\ \E i, j \in 1..Len(inflight) :
          /\ i # j
          /\ inflight[i].served /\ inflight[j].served
          /\ inflight[i].request.op = "create_user"
          /\ inflight[j].request.op = "create_user"
          /\ inflight[i].request.body["email"] # inflight[j].request.body["email"]
          /\ ~UsernameTaken(inflight[i].seen.users_db, "newuser")
          /\ ~UsernameTaken(inflight[j].seen.users_db, "newuser")
    /\ request.op = "create_user"
    /\ response = Error(400, "Username already exists")
    /\ Len(users_db) = Len(SampleUsers) + 1

====
